---- MODULE Spec2Model ----
(***************************************************************************)
(* Railway N8N CLI service (src/index.js): the POST /inject-credential     *)
(* handler and the functions it calls, as a state machine.  Every request  *)
(* is a process; its position (pc) moves at the awaits of the handler, so  *)
(* the continuations of different requests interleave as they do on the    *)
(* Node event loop.  The external CLI, the store and the file system       *)
(* answer nondeterministically.                                            *)
(***************************************************************************)
EXTENDS Integers, Sequences, FiniteSets, TLC

\* ------------------------------------------------------------------ bounds
NumReq == 2        \* concurrent HTTP requests
MaxTime == 1       \* Date.now() takes the values 0..MaxTime

Req == 1..NumReq
Paths == 0..MaxTime

\* ------------------------------------------------------------------ values
Undefined == "<undefined>"
Null == "<null>"
Timestamp == "<iso timestamp>"   \* new Date().toISOString()
NoFile == "<no file>"            \* nothing at a path (ENOENT)

\* JavaScript truthiness of a string-or-undefined value
Falsy(v) == v \in {Undefined, Null, ""}

Methods == {"POST", "GET", "OPTIONS"}
Urls == {"/inject-credential", "/", "/health"}

\* The routes the application declares
Routes ==
  {[method |-> "POST", url |-> "/inject-credential"],
   [method |-> "GET", url |-> "/"], [method |-> "GET", url |-> "/health"]}
UserIds == {Undefined, "", "u1"}
ProviderInputs ==
  {Undefined, "", "google", "spotify", "github", "twitter", "constructor"}

\* Strings whose content is searched are sequences of characters.
SuccessfullyImported ==
  <<"S","u","c","c","e","s","s","f","u","l","l","y"," ","i","m","p","o","r","t","e","d">>
Imported == <<"i","m","p","o","r","t","e","d">>
Credential == <<"c","r","e","d","e","n","t","i","a","l">>

OutAll == SuccessfullyImported \o <<" ","1"," ">> \o Credential \o <<"s">>
OutImportedOnly == Imported \o <<" ","1">>
OutCredentialOnly == <<"b","a","d"," ">> \o Credential
OutNearMiss == <<"I","m","p","o","r","t"," ","d","o","n","e">>
StdoutSamples == {OutAll, OutImportedOnly, OutCredentialOnly, OutNearMiss}

\* How an import subprocess can end: exit code (1 stands for every way execAsync
\* rejects: non-zero exit, timeout, spawn failure) and stdout
ExecOutcomes ==
  {[code |-> 0, stdout |-> s] : s \in StdoutSamples}
    \cup {[code |-> 1, stdout |-> s] : s \in {OutAll, OutNearMiss}}

\* String.prototype.includes
Includes(s, sub) ==
  \E i \in 1..(Len(s) - Len(sub) + 1) : SubSeq(s, i, i + Len(sub) - 1) = sub

\* ------------------------------------------------------------------ state
VARIABLES
  CONFIG,        \* which of the two configuration values the environment set
  store,         \* the rows of user u1 in the external store: per provider the
                 \* credential row, and the configuration row; a row is "unknown"
                 \* until a request names it
  record,        \* the status fields of the credential rows of user u1 in the
                 \* external store, per provider
  now,           \* the clock read by Date.now()
  files,         \* /tmp/credentials-<t>.json: the credential id in it, or NoFile
  pc,            \* per request: the await the handler is suspended at
  body,          \* per request: method, url and req.body
  headers,       \* per request: the cross-origin headers set on the response
  log,           \* per request: the external operations started, in order
  answers,       \* per request: how the probe, the two queries and the update ended
  credentialTemplate, \* per request: the template built
  tempFilePath,  \* per request: the scratch path chosen, or NoPath
  strategy,      \* per request: the strategy being run
  lastAttempt,   \* per request: the call of tryImportCommand that ran last: exit code
                 \* and stdout of its subprocess, its outcome and the error thrown
  attempts,      \* per request: the calls of tryImportCommand that ended, in order
  result,        \* per request: the outcome executeN8NCLIEnhanced is about to return
  cliResult,     \* per request: the outcome as received by the handler
  updateData,    \* per request: the status-update write issued
  res            \* per request: the HTTP response sent

vars == <<CONFIG, store, record, now, files, pc, body, headers, log, answers, credentialTemplate,
          tempFilePath, strategy, lastAttempt, attempts, result, cliResult,
          updateData, res>>

NoPath == 0 - 1
NoBody == [method |-> Null, url |-> Null, user_id |-> Undefined, provider |-> Undefined]
NoHeaders == [allowOrigin |-> Undefined, allowHeaders |-> Undefined,
              allowMethods |-> Undefined]
NoAnswers == [probe |-> Null, socialCred |-> Null, userInfo |-> Null, update |-> Null]
NoTemplate == [id |-> Undefined, type |-> Undefined]
NoAttempt == [strategy |-> Undefined, code |-> 0 - 1, stdout |-> << >>,
              outcome |-> Undefined, error |-> Undefined]
NoTroubleshooting == [defined |-> FALSE, strategies_tried |-> << >>]
NoResult == [success |-> FALSE, credentialId |-> Undefined, message |-> Undefined,
             strategy |-> Undefined, troubleshooting |-> NoTroubleshooting]
NoUpdate == [eq_user_id |-> Undefined, eq_provider |-> Undefined,
             injected_to_n8n |-> FALSE, injected_at |-> Null,
             injection_error |-> Null, n8n_credential_id |-> Undefined]
NoStatus == [injected_to_n8n |-> FALSE, injected_at |-> Null,
             injection_error |-> Null, n8n_credential_id |-> Undefined]
NoRes == [status |-> 0, success |-> FALSE, message |-> Undefined,
          error_type |-> Undefined, credential_id |-> Undefined,
          troubleshooting |-> NoTroubleshooting]

Init ==
  /\ CONFIG \in [SUPABASE_URL : BOOLEAN, SUPABASE_SERVICE_KEY : BOOLEAN]
  /\ store = [socialCred |-> [p \in ProviderInputs |-> "unknown"], user |-> "unknown"]
  /\ record = [p \in ProviderInputs |-> NoStatus]
  /\ now = 0
  /\ files = [p \in Paths |-> NoFile]
  /\ pc = [r \in Req |-> "idle"]
  /\ body = [r \in Req |-> NoBody]
  /\ headers = [r \in Req |-> NoHeaders]
  /\ log = [r \in Req |-> << >>]
  /\ answers = [r \in Req |-> NoAnswers]
  /\ credentialTemplate = [r \in Req |-> NoTemplate]
  /\ tempFilePath = [r \in Req |-> NoPath]
  /\ strategy = [r \in Req |-> Undefined]
  /\ lastAttempt = [r \in Req |-> NoAttempt]
  /\ attempts = [r \in Req |-> << >>]
  /\ result = [r \in Req |-> NoResult]
  /\ cliResult = [r \in Req |-> NoResult]
  /\ updateData = [r \in Req |-> NoUpdate]
  /\ res = [r \in Req |-> NoRes]

\* ------------------------------------------------------------------ pure functions

\* The headers the CORS middleware sets on every response
CorsHeaders ==
  [allowOrigin |-> "*",
   allowHeaders |-> "Origin, X-Requested-With, Content-Type, Accept, Authorization",
   allowMethods |-> "GET, POST, PUT, DELETE, OPTIONS"]

\* (a middleware that passes every request on)
ShortCircuits_Never(method) == FALSE

\* The CORS middleware answers the request itself instead of calling next()
ShortCircuits(method) == method = "OPTIONS"

\* (a handler that checks user_id alone)
MissingFields_UserOnly(user_id, provider) == Falsy(user_id)

\* The body check of the handler
MissingFields(user_id, provider) == Falsy(user_id) \/ Falsy(provider)

\* (a handler that checks the backend URL alone)
MissingConfiguration_UrlOnly == ~CONFIG.SUPABASE_URL

\* The configuration check of the handler
MissingConfiguration == ~CONFIG.SUPABASE_URL \/ ~CONFIG.SUPABASE_SERVICE_KEY

\* crypto.randomUUID(): a fresh id at every call; every request calls it once
randomUUID(r) == ToString(r)

\* The object literal credentialTypes of createCredentialTemplate
credentialTypes ==
  ("google" :> "googleOAuth2Api") @@ ("spotify" :> "spotifyOAuth2Api")
    @@ ("github" :> "githubOAuth2Api")

\* What an object literal inherits: properties of Object.prototype (all truthy)
ObjectPrototype ==
  ("constructor" :> "[Function: Object]") @@ ("toString" :> "[Function: toString]")
    @@ ("__proto__" :> "[Object: null prototype] {}")

\* obj[key] on an object literal: own properties, then the prototype chain
GetProperty(obj, key) ==
  IF key \in DOMAIN obj THEN obj[key]
  ELSE IF key \in DOMAIN ObjectPrototype THEN ObjectPrototype[key]
  ELSE Undefined

\* createCredentialTemplate: whether it threw, and the template
createCredentialTemplate(provider, uuid) ==
  LET credentialType == GetProperty(credentialTypes, provider)
  IN  IF Falsy(credentialType)
      THEN [threw |-> TRUE, template |-> NoTemplate]
      ELSE [threw |-> FALSE, template |-> [id |-> uuid, type |-> credentialType]]

\* (a lookup that returns null on an error alone)
NotFound_ErrorOnly(answer) == answer = "error"

\* fetchUserCredentials returns null on an error and on a missing row
NotFound(answer) == answer # "row"

\* (an execAsync that never rejects)
Rejects_Never(out) == FALSE

\* execAsync rejects unless the subprocess exits with code 0 in time
Rejects(out) == out.code # 0

\* The success indicators tryImportCommand looks for in stdout
HasSuccessIndicator(stdout) ==
  \/ Includes(stdout, SuccessfullyImported)
  \/ Includes(stdout, Imported)
  \/ Includes(stdout, Credential)

\* (a payload that lists the strategies in another order)
Troubleshooting_Reordered ==
  [defined |-> TRUE, strategies_tried |-> <<"basic", "minimal", "userFolder">>]

\* The fixed troubleshooting payload of a failure outcome
Troubleshooting ==
  [defined |-> TRUE, strategies_tried |-> <<"basic", "userFolder", "minimal">>]

\* The object tryImportCommand returns on success
ImportSuccess(s, credentialId) ==
  [success |-> TRUE, credentialId |-> credentialId,
   message |-> "Credentials imported successfully", strategy |-> s,
   troubleshooting |-> NoTroubleshooting]

\* The object the catch block of executeN8NCLIEnhanced returns
ImportFailure(message) ==
  [success |-> FALSE, credentialId |-> Undefined,
   message |-> IF Falsy(message) THEN "Enhanced CLI execution failed" ELSE message,
   strategy |-> Undefined, troubleshooting |-> Troubleshooting]

\* (an updateCredentialStatus that never sets the success flag)
UpdateData_Unflagged(userId, provider, success, credentialId, error) ==
  [eq_user_id |-> userId, eq_provider |-> provider,
   injected_to_n8n |-> FALSE,
   injected_at |-> IF success THEN Timestamp ELSE Null,
   injection_error |-> IF Falsy(error) THEN Null ELSE error,
   n8n_credential_id |-> IF Falsy(credentialId) THEN Undefined ELSE credentialId]

\* The write updateCredentialStatus issues: the row matched and the fields set
UpdateData(userId, provider, success, credentialId, error) ==
  [eq_user_id |-> userId, eq_provider |-> provider,
   injected_to_n8n |-> success,
   injected_at |-> IF success THEN Timestamp ELSE Null,
   injection_error |-> IF Falsy(error) THEN Null ELSE error,
   n8n_credential_id |-> IF Falsy(credentialId) THEN Undefined ELSE credentialId]

\* ------------------------------------------------------------------ steps

\* res.status(status).json({...}): the response is sent and the handler returns
Send(r, status, success, message, error_type, credential_id, troubleshooting) ==
  /\ res' = [res EXCEPT ![r] =
       [status |-> status, success |-> success, message |-> message,
        error_type |-> error_type, credential_id |-> credential_id,
        troubleshooting |-> troubleshooting]]
  /\ pc' = [pc EXCEPT ![r] = "done"]

\* An external operation is started and the handler suspends at its await
Await(r, op, at) ==
  /\ log' = [log EXCEPT ![r] = Append(@, op)]
  /\ pc' = [pc EXCEPT ![r] = at]

\* tryImportCommand(tempFilePath, credData, s) up to its await of execAsync
TryImportCommand(r, s) ==
  /\ Await(r, s, "exec")
  /\ strategy' = [strategy EXCEPT ![r] = s]

\* The catch block of executeN8NCLIEnhanced up to its await of fs.unlink
CatchAndUnlink(r, message) ==
  /\ result' = [result EXCEPT ![r] = ImportFailure(message)]
  /\ Await(r, "unlink", "unlink")
  /\ strategy' = [strategy EXCEPT ![r] = Undefined]

\* (an importer that tries minimal second and userFolder last)
StrategyFailed_Swapped(r, s) ==
  CASE s = "basic" ->
         /\ TryImportCommand(r, "minimal")
         /\ UNCHANGED result
    [] s = "minimal" ->
         /\ Await(r, "mkdir", "mkdir")
         /\ strategy' = [strategy EXCEPT ![r] = "userFolder"]
         /\ UNCHANGED result
    [] s = "userFolder" ->
         CatchAndUnlink(r, "All import strategies failed")

\* What follows the failure of strategy s: its catch block and the next strategy
\* up to its first await; after the last one the throw of line 227
StrategyFailed(r, s) ==
  CASE s = "basic" ->
         /\ Await(r, "mkdir", "mkdir")
         /\ strategy' = [strategy EXCEPT ![r] = "userFolder"]
         /\ UNCHANGED result
    [] s = "userFolder" ->
         /\ TryImportCommand(r, "minimal")
         /\ UNCHANGED result
    [] s = "minimal" ->
         CatchAndUnlink(r, "All import strategies failed")

\* tryImportCommand ends for strategy s with the given outcome
Ended(r, s, outcome) ==
  attempts' = [attempts EXCEPT ![r] = Append(@, [strategy |-> s, outcome |-> outcome])]

\* A row of the store is as it was found before; a row not yet looked at exists or not
RowChoices(row) == IF row = "unknown" THEN {"row", "no row"} ELSE {row}

\* How a .single() query for a row ends: with the row, with no row, with an error
\* in its answer, or by throwing
QueryAnswers(row) == {row, "error", "throws"}

\* A request arrives: the CORS middleware, then the handler of its route up to its
\* first await (for POST /inject-credential the CLI version probe)
Receive(r) ==
  /\ pc[r] = "idle"
  /\ \E m \in Methods, url \in Urls, u \in UserIds, p \in ProviderInputs :
       /\ m = "OPTIONS" \/ [method |-> m, url |-> url] \in Routes
       /\ m # "POST" => u = Undefined /\ p = Undefined
       /\ body' = [body EXCEPT ![r] =
                     [method |-> m, url |-> url, user_id |-> u, provider |-> p]]
       /\ headers' = [headers EXCEPT ![r] = CorsHeaders]
       /\ IF ShortCircuits(m)
          THEN /\ Send(r, 200, FALSE, "OK", Undefined, Undefined, NoTroubleshooting)
               /\ UNCHANGED <<log, store>>
          ELSE IF m = "GET"
          THEN /\ IF url = "/"
                  THEN Await(r, "n8n --version", "root")
                  ELSE Await(r, "n8n --help", "health")
               /\ UNCHANGED <<res, store>>
          ELSE IF MissingFields(u, p)
          THEN /\ Send(r, 400, FALSE, "Missing user_id or provider", Undefined,
                       Undefined, NoTroubleshooting)
               /\ UNCHANGED <<log, store>>
          ELSE /\ \E sc \in RowChoices(store.socialCred[p]), ur \in RowChoices(store.user) :
                    store' = [socialCred |-> [store.socialCred EXCEPT ![p] = sc],
                              user |-> ur]
               /\ IF MissingConfiguration
                  THEN /\ Send(r, 500, FALSE, "Missing Supabase configuration",
                               Undefined, Undefined, NoTroubleshooting)
                       /\ UNCHANGED log
                  ELSE /\ Await(r, "n8n --version", "probe")
                       /\ UNCHANGED res
  /\ UNCHANGED <<CONFIG, record, now, files, answers, credentialTemplate, tempFilePath,
                 strategy, lastAttempt, attempts, result, cliResult, updateData>>

\* GET /: the version check ends and the health report is sent
RootDone(r) ==
  /\ pc[r] = "root"
  /\ \E ok \in BOOLEAN :
       IF ok
       THEN Send(r, 200, FALSE, "healthy", Undefined, Undefined, NoTroubleshooting)
       ELSE Send(r, 500, FALSE, "unhealthy", Undefined, Undefined, NoTroubleshooting)
  /\ UNCHANGED <<CONFIG, store, record, now, files, body, headers, log, answers,
                 credentialTemplate, tempFilePath, strategy, lastAttempt, attempts,
                 result, cliResult, updateData>>

\* GET /health: the help check ends and the report is sent
HealthDone(r) ==
  /\ pc[r] = "health"
  /\ \E ok \in BOOLEAN :
       IF ok
       THEN Send(r, 200, FALSE, "ok", Undefined, Undefined, NoTroubleshooting)
       ELSE Send(r, 500, FALSE, "error", Undefined, Undefined, NoTroubleshooting)
  /\ UNCHANGED <<CONFIG, store, record, now, files, body, headers, log, answers,
                 credentialTemplate, tempFilePath, strategy, lastAttempt, attempts,
                 result, cliResult, updateData>>

\* (a handler that goes on after a failed probe)
ProbeDone_IgnoreFailure(r) ==
  /\ pc[r] = "probe"
  /\ \E ok \in BOOLEAN :
       /\ answers' = [answers EXCEPT ![r].probe = IF ok THEN "ok" ELSE "failed"]
       /\ Await(r, "select credential", "socialCred")
       /\ UNCHANGED res
  /\ UNCHANGED <<CONFIG, store, record, now, files, body, headers, credentialTemplate, tempFilePath,
                 strategy, lastAttempt, attempts, result, cliResult, updateData>>

\* The version probe ends; on success fetchUserCredentials issues its first query
ProbeDone(r) ==
  /\ pc[r] = "probe"
  /\ \E ok \in BOOLEAN :
       IF ok
       THEN /\ answers' = [answers EXCEPT ![r].probe = "ok"]
            /\ Await(r, "select credential", "socialCred")
            /\ UNCHANGED res
       ELSE /\ answers' = [answers EXCEPT ![r].probe = "failed"]
            /\ Send(r, 500, FALSE, "N8N CLI is not available in this environment",
                    "cli_unavailable", Undefined, NoTroubleshooting)
            /\ UNCHANGED log
  /\ UNCHANGED <<CONFIG, store, record, now, files, body, headers, credentialTemplate, tempFilePath,
                 strategy, lastAttempt, attempts, result, cliResult, updateData>>

\* (a lookup that repeats the credential-row query once after an error)
SocialCredDone_Retry(r) ==
  /\ pc[r] = "socialCred"
  /\ \E answer \in QueryAnswers(store.socialCred[body[r].provider]) :
       /\ answers' = [answers EXCEPT ![r].socialCred = answer]
       /\ IF ~NotFound(answer)
          THEN /\ Await(r, "select user", "userInfo")
               /\ UNCHANGED res
          ELSE IF answer = "error" /\ Len(log[r]) < 3
          THEN /\ Await(r, "select credential", "socialCred")
               /\ UNCHANGED res
          ELSE /\ Send(r, 404, FALSE, "User credentials or n8n configuration not found",
                       Undefined, Undefined, NoTroubleshooting)
               /\ UNCHANGED log
  /\ UNCHANGED <<CONFIG, store, record, now, files, body, headers, credentialTemplate, tempFilePath,
                 strategy, lastAttempt, attempts, result, cliResult, updateData>>

\* The credential-row query ends; with a row the configuration-row query is issued
SocialCredDone(r) ==
  /\ pc[r] = "socialCred"
  /\ \E answer \in QueryAnswers(store.socialCred[body[r].provider]) :
       /\ answers' = [answers EXCEPT ![r].socialCred = answer]
       /\ IF ~NotFound(answer)
          THEN /\ Await(r, "select user", "userInfo")
               /\ UNCHANGED res
          ELSE /\ Send(r, 404, FALSE, "User credentials or n8n configuration not found",
                       Undefined, Undefined, NoTroubleshooting)
               /\ UNCHANGED log
  /\ UNCHANGED <<CONFIG, store, record, now, files, body, headers, credentialTemplate, tempFilePath,
                 strategy, lastAttempt, attempts, result, cliResult, updateData>>

\* The configuration-row query ends; with a row the handler builds the template and
\* the import document and enters executeN8NCLIEnhanced up to its await of writeFile
UserInfoDone(r) ==
  /\ pc[r] = "userInfo"
  /\ \E answer \in QueryAnswers(store.user) :
       /\ answers' = [answers EXCEPT ![r].userInfo = answer]
       /\ IF NotFound(answer)
          THEN /\ Send(r, 404, FALSE, "User credentials or n8n configuration not found",
                       Undefined, Undefined, NoTroubleshooting)
               /\ UNCHANGED <<log, credentialTemplate, tempFilePath>>
          ELSE LET made == createCredentialTemplate(body[r].provider, randomUUID(r))
               IN  IF made.threw
                   THEN /\ Send(r, 500, FALSE, "Unsupported provider",
                                "railway_service_error", Undefined, NoTroubleshooting)
                        /\ UNCHANGED <<log, credentialTemplate, tempFilePath>>
                   ELSE /\ credentialTemplate' =
                             [credentialTemplate EXCEPT ![r] = made.template]
                        /\ tempFilePath' = [tempFilePath EXCEPT ![r] = now]
                        /\ Await(r, "writeFile", "writeFile")
                        /\ UNCHANGED res
  /\ UNCHANGED <<CONFIG, store, record, now, files, body, headers, strategy, lastAttempt, attempts,
                 result, cliResult, updateData>>

\* fs.writeFile ends: the document is on disk and strategy 1 starts, or the write
\* failed and the outer catch block runs
WriteFileDone(r) ==
  /\ pc[r] = "writeFile"
  /\ \E ok \in BOOLEAN :
       IF ok
       THEN /\ files' = [files EXCEPT ![tempFilePath[r]] = credentialTemplate[r].id]
            /\ TryImportCommand(r, "basic")
            /\ UNCHANGED result
       ELSE /\ CatchAndUnlink(r, "EACCES: permission denied")
            /\ UNCHANGED files
  /\ UNCHANGED <<CONFIG, store, record, now, body, headers, answers, credentialTemplate, tempFilePath,
                 lastAttempt, attempts, cliResult, updateData, res>>

\* (a tryImportCommand whose rejected subprocess ends the whole import)
ExecDone_Fatal(r) ==
  /\ pc[r] = "exec"
  /\ \E out \in ExecOutcomes :
       LET ran == [strategy |-> strategy[r], code |-> out.code, stdout |-> out.stdout,
                   outcome |-> "pending", error |-> Undefined]
       IN  IF Rejects(out)
           THEN /\ lastAttempt' = [lastAttempt EXCEPT ![r] =
                     [ran EXCEPT !.outcome = "failure", !.error = "Command failed"]]
                /\ Ended(r, strategy[r], "failure")
                /\ CatchAndUnlink(r, "Command failed")
           ELSE IF HasSuccessIndicator(out.stdout)
           THEN /\ lastAttempt' = [lastAttempt EXCEPT ![r] = ran]
                /\ Await(r, "readFile", "readFile")
                /\ UNCHANGED <<strategy, attempts, result>>
           ELSE /\ lastAttempt' = [lastAttempt EXCEPT ![r] =
                     [ran EXCEPT !.outcome = "failure",
                                 !.error = "no success indicators found"]]
                /\ Ended(r, strategy[r], "failure")
                /\ StrategyFailed(r, strategy[r])
  /\ UNCHANGED <<CONFIG, store, record, now, files, body, headers, answers, credentialTemplate,
                 tempFilePath, cliResult, updateData, res>>

\* The import subprocess of the running strategy ends.  When execAsync rejects, or
\* stdout holds no success indicator, tryImportCommand throws; otherwise it reads
\* the scratch file back.
ExecDone(r) ==
  /\ pc[r] = "exec"
  /\ \E out \in ExecOutcomes :
       LET ran == [strategy |-> strategy[r], code |-> out.code, stdout |-> out.stdout,
                   outcome |-> "pending", error |-> Undefined]
       IN  IF Rejects(out)
           THEN /\ lastAttempt' = [lastAttempt EXCEPT ![r] =
                     [ran EXCEPT !.outcome = "failure", !.error = "Command failed"]]
                /\ Ended(r, strategy[r], "failure")
                /\ StrategyFailed(r, strategy[r])
           ELSE IF HasSuccessIndicator(out.stdout)
           THEN /\ lastAttempt' = [lastAttempt EXCEPT ![r] = ran]
                /\ Await(r, "readFile", "readFile")
                /\ UNCHANGED <<strategy, attempts, result>>
           ELSE /\ lastAttempt' = [lastAttempt EXCEPT ![r] =
                     [ran EXCEPT !.outcome = "failure",
                                 !.error = "no success indicators found"]]
                /\ Ended(r, strategy[r], "failure")
                /\ StrategyFailed(r, strategy[r])
  /\ UNCHANGED <<CONFIG, store, record, now, files, body, headers, answers, credentialTemplate,
                 tempFilePath, cliResult, updateData, res>>

\* fs.readFile of the scratch file ends: the id in it is the credentialId of the
\* success result, and the file is unlinked; a missing file fails the strategy
ReadFileDone(r) ==
  /\ pc[r] = "readFile"
  /\ IF files[tempFilePath[r]] = NoFile
     THEN /\ lastAttempt' = [lastAttempt EXCEPT ![r].outcome = "failure",
                                                ![r].error = "ENOENT"]
          /\ Ended(r, strategy[r], "failure")
          /\ StrategyFailed(r, strategy[r])
     ELSE /\ lastAttempt' = [lastAttempt EXCEPT ![r].outcome = "success"]
          /\ Ended(r, strategy[r], "success")
          /\ result' = [result EXCEPT ![r] =
                          ImportSuccess(strategy[r], files[tempFilePath[r]])]
          /\ Await(r, "unlink", "unlink")
          /\ UNCHANGED strategy
  /\ UNCHANGED <<CONFIG, store, record, now, files, body, headers, answers, credentialTemplate,
                 tempFilePath, cliResult, updateData, res>>

\* fs.mkdir('/tmp/.n8n') of strategy 2 ends: the userFolder import starts, or the
\* error is caught as the failure of strategy 2
MkdirDone(r) ==
  /\ pc[r] = "mkdir"
  /\ \E ok \in BOOLEAN :
       IF ok
       THEN /\ TryImportCommand(r, "userFolder")
            /\ UNCHANGED result
       ELSE StrategyFailed(r, "userFolder")
  /\ lastAttempt' = [lastAttempt EXCEPT ![r] = NoAttempt]
  /\ UNCHANGED <<CONFIG, store, record, now, files, body, headers, answers, credentialTemplate,
                 tempFilePath, attempts, cliResult, updateData, res>>

\* (a handler that records successes only)
AfterImport_SuccessOnly(r) ==
  IF result[r].success
  THEN /\ updateData' = [updateData EXCEPT ![r] =
            UpdateData(body[r].user_id, body[r].provider, result[r].success,
                       result[r].credentialId, result[r].message)]
       /\ Await(r, "update", "update")
       /\ UNCHANGED res
  ELSE /\ Send(r, 500, FALSE, result[r].message, Undefined, Undefined,
               result[r].troubleshooting)
       /\ UNCHANGED <<updateData, log>>

\* The handler after executeN8NCLIEnhanced returned: updateCredentialStatus up to
\* its await of the update
AfterImport(r) ==
  /\ updateData' = [updateData EXCEPT ![r] =
       UpdateData(body[r].user_id, body[r].provider, result[r].success,
                  result[r].credentialId, result[r].message)]
  /\ Await(r, "update", "update")
  /\ UNCHANGED res

\* (an executeN8NCLIEnhanced that lets the error of fs.unlink escape to its catch)
UnlinkDone_Propagate(r) ==
  /\ pc[r] = "unlink"
  /\ \E ok \in BOOLEAN :
       /\ files' = IF ok THEN [files EXCEPT ![tempFilePath[r]] = NoFile] ELSE files
       /\ cliResult' = [cliResult EXCEPT ![r] =
            IF ok THEN result[r] ELSE ImportFailure("unlink failed")]
  /\ AfterImport(r)
  /\ lastAttempt' = [lastAttempt EXCEPT ![r] = NoAttempt]
  /\ UNCHANGED <<CONFIG, store, record, now, body, headers, answers, credentialTemplate, tempFilePath,
                 strategy, attempts, result>>

\* fs.unlink ends (its error is swallowed) and executeN8NCLIEnhanced returns
UnlinkDone(r) ==
  /\ pc[r] = "unlink"
  /\ \E ok \in BOOLEAN :
       files' = IF ok THEN [files EXCEPT ![tempFilePath[r]] = NoFile] ELSE files
  /\ cliResult' = [cliResult EXCEPT ![r] = result[r]]
  /\ AfterImport(r)
  /\ lastAttempt' = [lastAttempt EXCEPT ![r] = NoAttempt]
  /\ UNCHANGED <<CONFIG, store, record, now, body, headers, answers, credentialTemplate, tempFilePath,
                 strategy, attempts, result>>

\* (a store that keeps a row once it is flagged as injected)
ApplyUpdate_KeepInjected(row, data) ==
  IF row.injected_to_n8n THEN row
  ELSE [injected_to_n8n |-> data.injected_to_n8n,
        injected_at |-> data.injected_at,
        injection_error |-> data.injection_error,
        n8n_credential_id |-> IF data.n8n_credential_id = Undefined
                              THEN row.n8n_credential_id
                              ELSE data.n8n_credential_id]

\* .update(updateData) on a row: the fields present in updateData replace the
\* row's, the others stay
ApplyUpdate(row, data) ==
  [injected_to_n8n |-> data.injected_to_n8n,
   injected_at |-> data.injected_at,
   injection_error |-> data.injection_error,
   n8n_credential_id |-> IF data.n8n_credential_id = Undefined
                         THEN row.n8n_credential_id
                         ELSE data.n8n_credential_id]

\* The store after the status-update write of request r is applied to the row it
\* matches by (user_id, provider)
Applied(r) ==
  [record EXCEPT ![updateData[r].eq_provider] = ApplyUpdate(@, updateData[r])]

\* (an updateCredentialStatus that does not throw on updateError)
UpdateDone_IgnoreFailure(r) ==
  /\ pc[r] = "update"
  /\ \E ok \in BOOLEAN :
       /\ answers' = [answers EXCEPT ![r].update = IF ok THEN "ok" ELSE "failed"]
       /\ record' = IF ok THEN Applied(r) ELSE record
       /\ IF cliResult[r].success
          THEN Send(r, 200, TRUE,
                    "Credentials injected successfully via Railway n8n CLI",
                    Undefined, cliResult[r].credentialId, NoTroubleshooting)
          ELSE Send(r, 500, FALSE, cliResult[r].message, Undefined, Undefined,
                    cliResult[r].troubleshooting)
  /\ UNCHANGED <<CONFIG, store, now, files, body, headers, log, credentialTemplate,
                 tempFilePath, strategy, lastAttempt, attempts, result, cliResult,
                 updateData>>

\* (a handler whose catch block logs the error and sends nothing)
UpdateDone_SilentCatch(r) ==
  /\ pc[r] = "update"
  /\ \E ok \in BOOLEAN :
       IF ~ok
       THEN /\ answers' = [answers EXCEPT ![r].update = "failed"]
            /\ UNCHANGED record
            /\ pc' = [pc EXCEPT ![r] = "done"]
            /\ UNCHANGED res
       ELSE /\ answers' = [answers EXCEPT ![r].update = "ok"]
            /\ record' = Applied(r)
            /\ IF cliResult[r].success
               THEN Send(r, 200, TRUE,
                         "Credentials injected successfully via Railway n8n CLI",
                         Undefined, cliResult[r].credentialId, NoTroubleshooting)
               ELSE Send(r, 500, FALSE, cliResult[r].message, Undefined, Undefined,
                         cliResult[r].troubleshooting)
  /\ UNCHANGED <<CONFIG, store, now, files, body, headers, log, credentialTemplate,
                 tempFilePath, strategy, lastAttempt, attempts, result, cliResult,
                 updateData>>

\* The status-update write ends: the outcome is mapped to the response, or the
\* write failed and the catch block of the handler answers
UpdateDone(r) ==
  /\ pc[r] = "update"
  /\ \E ok \in BOOLEAN :
       IF ~ok
       THEN /\ answers' = [answers EXCEPT ![r].update = "failed"]
            /\ UNCHANGED record
            /\ Send(r, 500, FALSE, "Database update failed", "railway_service_error",
                    Undefined, NoTroubleshooting)
       ELSE /\ answers' = [answers EXCEPT ![r].update = "ok"]
            /\ record' = Applied(r)
            /\ IF cliResult[r].success
               THEN Send(r, 200, TRUE,
                         "Credentials injected successfully via Railway n8n CLI",
                         Undefined, cliResult[r].credentialId, NoTroubleshooting)
               ELSE Send(r, 500, FALSE, cliResult[r].message, Undefined, Undefined,
                         cliResult[r].troubleshooting)
  /\ UNCHANGED <<CONFIG, store, now, files, body, headers, log, credentialTemplate,
                 tempFilePath, strategy, lastAttempt, attempts, result, cliResult,
                 updateData>>

\* A millisecond passes
Tick ==
  /\ now < MaxTime
  /\ now' = now + 1
  /\ UNCHANGED <<CONFIG, store, record, files, pc, body, headers, log, answers, credentialTemplate,
                 tempFilePath, strategy, lastAttempt, attempts, result, cliResult,
                 updateData, res>>

Next ==
  \/ Tick
  \/ \E r \in Req : Receive(r)
  \/ \E r \in Req : RootDone(r)
  \/ \E r \in Req : HealthDone(r)
  \/ \E r \in Req : ProbeDone(r)
  \/ \E r \in Req : SocialCredDone(r)
  \/ \E r \in Req : UserInfoDone(r)
  \/ \E r \in Req : WriteFileDone(r)
  \/ \E r \in Req : ExecDone(r)
  \/ \E r \in Req : ReadFileDone(r)
  \/ \E r \in Req : MkdirDone(r)
  \/ \E r \in Req : UnlinkDone(r)
  \/ \E r \in Req : UpdateDone(r)

Spec == Init /\ [][Next]_vars

\* The continuation of request r after the external call it awaits has settled
Continue(r) ==
  \/ RootDone(r) \/ HealthDone(r)
  \/ ProbeDone(r) \/ SocialCredDone(r) \/ UserInfoDone(r)
  \/ WriteFileDone(r) \/ ExecDone(r) \/ ReadFileDone(r) \/ MkdirDone(r)
  \/ UnlinkDone(r) \/ UpdateDone(r)

\* The providers of the requests FairSpec receives: one the mapping has, one it
\* lacks, and none
FairProviders == {Undefined, "google", "twitter"}

\* A request with one of those providers arrives
ReceiveFair(r) == Receive(r) /\ body'[r].provider \in FairProviders

FairNext ==
  \/ Tick
  \/ \E r \in Req : ReceiveFair(r)
  \/ \E r \in Req : Continue(r)

\* Every external call settles (it returns, fails or times out: the probe after
\* 5 s, an import subprocess after 60 s) and the event loop then runs the
\* continuation that awaits it
FairSpec == Init /\ [][FairNext]_vars /\ \A r \in Req : WF_vars(Continue(r))

\* ------------------------------------------------------------------ properties

Strategies == {"basic", "userFolder", "minimal"}

\* How often request r started the external operation op
Count(r, op) == Cardinality({i \in DOMAIN log[r] : log[r][i] = op})
Started(r, op) == Count(r, op) > 0
Responded(r) == res[r].status # 0

\* Request r is a POST /inject-credential that has been received
Posted(r) == body[r].method = "POST"
Empty(v) == v = Undefined \/ v = ""

\* Strategy s of request r ran its import subprocess and ended in failure
Failed(r, s) ==
  \E i \in DOMAIN attempts[r] : attempts[r][i] = [strategy |-> s, outcome |-> "failure"]

\* All three strategies of request r failed (the second one by its subprocess or by
\* the mkdir before it)
AllStrategiesFailed(r) ==
  /\ Failed(r, "basic")
  /\ Failed(r, "userFolder") \/ (Started(r, "mkdir") /\ ~Started(r, "userFolder"))
  /\ Failed(r, "minimal")

\* C1: a POST /inject-credential whose body lacks user_id or provider (missing or
\* empty) is answered 400 and causes no external operation: no status-update write,
\* no scratch file write, no import subprocess.
C1_MissingFieldsRejected ==
  \A r \in Req :
    Posted(r) /\ (Empty(body[r].user_id) \/ Empty(body[r].provider))
      => /\ res[r].status = 400
         /\ log[r] = << >>
         /\ updateData[r] = NoUpdate
         /\ tempFilePath[r] = NoPath

C1_Witness ==
  \E r \in Req :
    /\ Posted(r) /\ body[r].user_id = "u1" /\ body[r].provider = ""
    /\ res[r].status = 400

\* C2 as stated: a request with user_id and provider whose pair has no credential
\* row in the store is answered 404, whatever the configuration and the CLI.
C2_Original ==
  \A r \in Req :
    /\ Posted(r) /\ ~Empty(body[r].user_id) /\ ~Empty(body[r].provider)
    /\ Responded(r)
    /\ store.socialCred[body[r].provider] = "no row"
    => res[r].status = 404

\* C2 amended: with the configuration present and the CLI probe passed, a request
\* with user_id and provider whose pair has no credential row is answered 404; with
\* the configuration missing or the probe failed the answer is 500.
C2_NoRowIs404 ==
  \A r \in Req :
    /\ Posted(r) /\ ~Empty(body[r].user_id) /\ ~Empty(body[r].provider)
    /\ Responded(r)
    /\ store.socialCred[body[r].provider] = "no row"
    => IF CONFIG.SUPABASE_URL /\ CONFIG.SUPABASE_SERVICE_KEY /\ answers[r].probe = "ok"
       THEN res[r].status = 404
       ELSE res[r].status = 500

C2_Witness ==
  \E r \in Req :
    /\ Posted(r) /\ body[r].user_id = "u1" /\ body[r].provider = "google"
    /\ store.socialCred["google"] = "no row"
    /\ answers[r].probe = "ok"
    /\ answers[r].socialCred = "no row"
    /\ res[r].status = 404

\* The success substrings of the spec
ContainsSuccessSubstring(stdout) ==
  \E marker \in {SuccessfullyImported, Imported, Credential} : Includes(stdout, marker)

\* C3 as stated: an import attempt whose output contains a success substring is
\* reported as success whatever the exit code, and one whose output contains none
\* is reported as failure.
C3_Original ==
  \A r \in Req :
    lastAttempt[r].outcome \in {"success", "failure"}
      => IF ContainsSuccessSubstring(lastAttempt[r].stdout)
         THEN lastAttempt[r].outcome = "success"
         ELSE lastAttempt[r].outcome = "failure"

\* C3 amended: an import attempt whose subprocess exits non-zero (or times out, or
\* cannot be spawned) is a failure whatever its output; one that exits zero with no
\* success substring in its output is a failure; one that exits zero with a success
\* substring goes on to read the scratch file back and is reported as success
\* unless that read fails.
C3_ExitCodeThenSubstring ==
  \A r \in Req :
    LET a == lastAttempt[r]
        marked == ContainsSuccessSubstring(a.stdout)
    IN  a.strategy # Undefined
          => /\ a.code # 0 => a.outcome = "failure"
             /\ a.code = 0 /\ ~marked => a.outcome = "failure"
             /\ a.code = 0 /\ marked =>
                  \/ a.outcome = "pending" /\ pc[r] = "readFile"
                  \/ a.outcome = "success"
                  \/ a.outcome = "failure" /\ a.error = "ENOENT"
             /\ a.outcome = "success" =>
                  /\ result[r].success /\ result[r].strategy = a.strategy
                  /\ attempts[r][Len(attempts[r])] =
                       [strategy |-> a.strategy, outcome |-> "success"]
             /\ a.outcome = "failure" => Failed(r, a.strategy)

C3_Witness ==
  /\ \E r \in Req :
       /\ lastAttempt[r].code # 0
       /\ ContainsSuccessSubstring(lastAttempt[r].stdout)
       /\ lastAttempt[r].outcome = "failure"
  /\ \E r \in Req :
       /\ lastAttempt[r].code = 0
       /\ ContainsSuccessSubstring(lastAttempt[r].stdout)
       /\ lastAttempt[r].outcome = "success"

\* C4: a request that reaches the importer attempts exactly one status-update write,
\* against the record of its own (user, provider), whether the import succeeded or
\* all strategies failed; when they all failed the write carries
\* injected_to_n8n = false and precedes the 500 response.
C4_OneStatusWrite ==
  \A r \in Req :
    Started(r, "writeFile")
      => /\ Count(r, "update") <= 1
         /\ Responded(r) =>
              /\ Count(r, "update") = 1
              /\ updateData[r].eq_user_id = body[r].user_id
              /\ updateData[r].eq_provider = body[r].provider
              /\ updateData[r].injected_to_n8n = cliResult[r].success
         /\ Responded(r) /\ AllStrategiesFailed(r) =>
              /\ updateData[r].injected_to_n8n = FALSE
              /\ res[r].status = 500

C4_Witness ==
  \E r \in Req :
    /\ AllStrategiesFailed(r) /\ Responded(r)
    /\ Count(r, "update") = 1
    /\ updateData[r].injected_to_n8n = FALSE
    /\ res[r].status = 500

\* C5: when the CLI version probe of a request fails, the response is 500 with
\* error_type cli_unavailable and the request performs no credential lookup, no
\* scratch file write, no import subprocess and no status-update write.
C5_ProbeFailureStops ==
  \A r \in Req :
    answers[r].probe = "failed"
      => /\ res[r].status = 500
         /\ res[r].error_type = "cli_unavailable"
         /\ log[r] = <<"n8n --version">>
         /\ tempFilePath[r] = NoPath
         /\ updateData[r] = NoUpdate

C5_Witness ==
  \E r \in Req : answers[r].probe = "failed" /\ res[r].status = 500

\* Request r is inside executeN8NCLIEnhanced
InExecutor(r) == pc[r] \in {"writeFile", "exec", "readFile", "mkdir", "unlink"}

\* C6: template construction gives google the type googleOAuth2Api, spotify
\* spotifyOAuth2Api and github githubOAuth2Api, and fails with 'Unsupported
\* provider' for every other provider string, names of inherited object properties
\* such as 'constructor' included.
C6_ClosedProviderMapping ==
  \A r \in Req :
    answers[r].userInfo = "row"
      => CASE body[r].provider = "google" ->
                credentialTemplate[r].type = "googleOAuth2Api"
           [] body[r].provider = "spotify" ->
                credentialTemplate[r].type = "spotifyOAuth2Api"
           [] body[r].provider = "github" ->
                credentialTemplate[r].type = "githubOAuth2Api"
           [] OTHER ->
                /\ credentialTemplate[r] = NoTemplate
                /\ res[r].status = 500
                /\ res[r].message = "Unsupported provider"

\* C7: two requests that are inside executeN8NCLIEnhanced at the same time have
\* different scratch paths.
C7_ScratchPathsDiffer ==
  \A r1, r2 \in Req :
    r1 # r2 /\ InExecutor(r1) /\ InExecutor(r2) => tempFilePath[r1] # tempFilePath[r2]

\* C8: when the status-update write fails after an import strategy succeeded, the
\* request ends with a 500 response, not 200, and nothing is done to compensate: no
\* further import, no second deletion, no second status write.
C8_WriteFailureIsFatal ==
  \A r \in Req :
    cliResult[r].success /\ answers[r].update = "failed"
      => /\ res[r].status = 500
         /\ res[r].success = FALSE
         /\ res[r].credential_id = Undefined
         /\ \E i \in DOMAIN attempts[r] : attempts[r][i].outcome = "success"
         /\ log[r][Len(log[r])] = "update"
         /\ Count(r, "update") = 1
         /\ Count(r, "unlink") = 1
         /\ \A s \in Strategies : Count(r, s) <= 1

C8_Witness ==
  \E r \in Req :
    /\ cliResult[r].success /\ answers[r].update = "failed"
    /\ res[r].status = 500

\* C9: whenever executeN8NCLIEnhanced has returned, after a success of any strategy
\* or after a failure (a failed write of the scratch file included), it has started
\* one deletion of the scratch file before returning, and what it returns is the
\* outcome it had before the deletion, whether the deletion failed or not.
C9_UnlinkBeforeReturn ==
  \A r \in Req :
    /\ result[r] # NoResult => Started(r, "unlink")
    /\ cliResult[r] # NoResult =>
         /\ Count(r, "unlink") = 1
         /\ cliResult[r] = result[r]
         /\ \A i, j \in DOMAIN log[r] :
              log[r][i] = "unlink" /\ log[r][j] = "update" => i < j

\* A success returned although the file is still there (its deletion failed), next
\* to a failure returned after the scratch file could not be written
C9_Witness ==
  \E r1, r2 \in Req :
    /\ cliResult[r1].success
    /\ tempFilePath[r1] # tempFilePath[r2]
    /\ files[tempFilePath[r1]] = credentialTemplate[r1].id
    /\ cliResult[r2].message = "EACCES: permission denied"
    /\ Count(r2, "unlink") = 1

\* C10 as stated: when all three strategies fail, the response is 500 and carries
\* the troubleshooting payload that lists basic, userFolder, minimal.
C10_Original ==
  \A r \in Req :
    AllStrategiesFailed(r) /\ Responded(r)
      => /\ res[r].status = 500
         /\ res[r].troubleshooting.defined
         /\ res[r].troubleshooting.strategies_tried = <<"basic", "userFolder", "minimal">>

\* C10 amended: when all three strategies fail, executeN8NCLIEnhanced returns
\* success = false with strategies_tried = basic, userFolder, minimal in that order,
\* and the response is 500; it carries that payload when the status-update write
\* succeeds, and error_type railway_service_error without the payload when the
\* write fails.
C10_ExhaustionPayload ==
  \A r \in Req :
    AllStrategiesFailed(r) /\ cliResult[r] # NoResult
      => /\ cliResult[r].success = FALSE
         /\ cliResult[r].troubleshooting.defined
         /\ cliResult[r].troubleshooting.strategies_tried =
              <<"basic", "userFolder", "minimal">>
         /\ Responded(r) =>
              /\ res[r].status = 500
              /\ answers[r].update = "ok" =>
                   res[r].troubleshooting = cliResult[r].troubleshooting
              /\ answers[r].update = "failed" =>
                   /\ ~res[r].troubleshooting.defined
                   /\ res[r].error_type = "railway_service_error"

C10_Witness ==
  \E r \in Req :
    /\ attempts[r] = <<[strategy |-> "basic", outcome |-> "failure"],
                       [strategy |-> "userFolder", outcome |-> "failure"],
                       [strategy |-> "minimal", outcome |-> "failure"]>>
    /\ answers[r].update = "ok"
    /\ res[r].status = 500
    /\ res[r].troubleshooting.strategies_tried = <<"basic", "userFolder", "minimal">>

\* Request r is the request of the end-to-end scenario: user u1, provider google,
\* the configuration present, the CLI probe passed and both store rows found
Scenario(r) ==
  /\ Posted(r) /\ body[r].user_id = "u1" /\ body[r].provider = "google"
  /\ CONFIG.SUPABASE_URL /\ CONFIG.SUPABASE_SERVICE_KEY
  /\ answers[r].probe = "ok"
  /\ answers[r].socialCred = "row" /\ answers[r].userInfo = "row"

\* The basic strategy of request r has printed 'Successfully imported 1 credentials'
BasicPrinted(r) ==
  /\ lastAttempt[r].strategy = "basic"
  /\ lastAttempt[r].stdout = OutAll
  /\ lastAttempt[r].outcome # "pending"

\* C11 as stated: in the end-to-end scenario, once the basic strategy has printed
\* 'Successfully imported 1 credentials' it is the strategy that succeeded and no
\* other strategy is entered.
C11_Original ==
  \A r \in Req :
    Scenario(r) /\ BasicPrinted(r)
      => /\ lastAttempt[r].outcome = "success"
         /\ ~Started(r, "mkdir") /\ ~Started(r, "userFolder") /\ ~Started(r, "minimal")

\* C11 amended: in the end-to-end scenario, when the subprocess of the basic
\* strategy exits with code zero having printed 'Successfully imported 1
\* credentials', the basic strategy succeeds unless the scratch file is gone when it
\* is read back (then the strategy fails and the userFolder strategy is entered);
\* and when the basic strategy succeeded and the status write succeeded, the
\* response is 200 with a credential_id, the write carries injected_to_n8n = true
\* for the pair of the request, and neither userFolder nor minimal is run.
C11_EndToEnd ==
  \A r \in Req :
    Scenario(r)
      => /\ BasicPrinted(r) /\ lastAttempt[r].code = 0 =>
              \/ /\ lastAttempt[r].outcome = "success"
                 /\ attempts[r] = <<[strategy |-> "basic", outcome |-> "success"]>>
                 /\ result[r].success
                 /\ ~Empty(result[r].credentialId)
              \/ /\ lastAttempt[r].outcome = "failure"
                 /\ lastAttempt[r].error = "ENOENT"
                 /\ Started(r, "mkdir")
         /\ attempts[r] # << >>
              /\ attempts[r][1] = [strategy |-> "basic", outcome |-> "success"] =>
              /\ ~Started(r, "mkdir")
              /\ ~Started(r, "userFolder")
              /\ ~Started(r, "minimal")
              /\ Responded(r) /\ answers[r].update = "ok" =>
                   /\ res[r].status = 200
                   /\ res[r].success
                   /\ ~Empty(res[r].credential_id)
                   /\ updateData[r].injected_to_n8n = TRUE
                   /\ updateData[r].eq_user_id = "u1"
                   /\ updateData[r].eq_provider = "google"

\* One request of the scenario has just succeeded with the basic strategy on that
\* output, and one has been answered 200 after it
C11_Witness ==
  /\ \E r \in Req :
       /\ Scenario(r) /\ BasicPrinted(r) /\ lastAttempt[r].code = 0
       /\ lastAttempt[r].outcome = "success"
  /\ \E r \in Req :
       /\ Scenario(r)
       /\ attempts[r] = <<[strategy |-> "basic", outcome |-> "success"]>>
       /\ answers[r].update = "ok"
       /\ res[r].status = 200
       /\ updateData[r].injected_to_n8n

\* Both body fields of request r are present
HasBothFields(r) == ~Empty(body[r].user_id) /\ ~Empty(body[r].provider)

\* The backend URL or the backend service key is missing
ConfigurationIncomplete == ~(CONFIG.SUPABASE_URL /\ CONFIG.SUPABASE_SERVICE_KEY)

\* C12: with the backend URL or the service key missing, a POST that carries both
\* body fields is answered 500 and starts nothing: no CLI probe, no store query, no
\* scratch file, no status write; a POST that lacks a body field is answered 400
\* even then, the body check coming first.
C12_ConfigurationChecked ==
  \A r \in Req :
    Posted(r) /\ ConfigurationIncomplete
      => IF HasBothFields(r)
         THEN /\ res[r].status = 500
              /\ res[r].message = "Missing Supabase configuration"
              /\ log[r] = << >>
              /\ answers[r] = NoAnswers
              /\ tempFilePath[r] = NoPath
              /\ updateData[r] = NoUpdate
         ELSE /\ res[r].status = 400
              /\ log[r] = << >>

C12_Witness ==
  \E r1, r2 \in Req :
    /\ CONFIG.SUPABASE_URL /\ ~CONFIG.SUPABASE_SERVICE_KEY
    /\ Posted(r1) /\ HasBothFields(r1) /\ res[r1].status = 500
    /\ Posted(r2) /\ ~HasBothFields(r2) /\ res[r2].status = 400

\* C13: an OPTIONS request on any path is answered 200 by the cross-origin
\* middleware and reaches no route handler: it starts no subprocess, no store query,
\* no file operation and no status write; every other request goes on to its handler
\* with the permissive cross-origin headers already set on its response.
C13_OptionsShortCircuit ==
  \A r \in Req :
    /\ body[r].method = "OPTIONS"
         => /\ res[r].status = 200
            /\ pc[r] = "done"
            /\ log[r] = << >>
            /\ answers[r] = NoAnswers
            /\ credentialTemplate[r] = NoTemplate
            /\ tempFilePath[r] = NoPath
            /\ updateData[r] = NoUpdate
    /\ pc[r] # "idle"
         => /\ headers[r].allowOrigin = "*"
            /\ headers[r].allowMethods = "GET, POST, PUT, DELETE, OPTIONS"
            /\ headers[r].allowHeaders # Undefined
    /\ body[r].method \in {"POST", "GET"}
         => \/ log[r] # << >>
            \/ res[r].status \in {400, 500}

C13_Witness ==
  \E r1, r2 \in Req :
    /\ body[r1].method = "OPTIONS" /\ body[r1].url = "/inject-credential"
    /\ res[r1].status = 200
    /\ body[r2].method = "GET" /\ body[r2].url = "/health"
    /\ pc[r2] = "health"
    /\ headers[r2].allowOrigin = "*"

IsPrefix(a, b) == Len(a) <= Len(b) /\ a = SubSeq(b, 1, Len(a))
IsStrategy(op) == op \in Strategies
IsEntry(op) == op \in {"basic", "mkdir", "minimal"}

\* The import subprocesses request r started, in order
Subprocesses(r) == SelectSeq(log[r], IsStrategy)

\* The strategies request r entered, in order, each named by its first operation
\* (strategy 2 begins with the mkdir of /tmp/.n8n)
Entered(r) == SelectSeq(log[r], IsEntry)

\* C14: within a request the importer goes basic, userFolder, minimal in that order:
\* a strategy is entered only after the one before it ended in failure, at most one
\* import subprocess of the request is running, no strategy runs twice, and after
\* the first strategy that succeeds none is started.
C14_FixedStrategyOrder ==
  \A r \in Req :
    LET sub == Subprocesses(r)
        ended == attempts[r]
    IN  /\ IsPrefix(Entered(r), <<"basic", "mkdir", "minimal">>)
        /\ IsPrefix(sub, <<"basic", "userFolder", "minimal">>)
             \/ sub = <<"basic", "minimal">>
        /\ Started(r, "userFolder") =>
             \E i, j \in DOMAIN log[r] :
               i < j /\ log[r][i] = "mkdir" /\ log[r][j] = "userFolder"
        /\ Started(r, "mkdir") =>
             /\ ended # << >>
             /\ ended[1] = [strategy |-> "basic", outcome |-> "failure"]
        /\ Started(r, "minimal") =>
             /\ Started(r, "mkdir")
             /\ Started(r, "userFolder") =>
                  /\ Len(ended) >= 2
                  /\ ended[2] = [strategy |-> "userFolder", outcome |-> "failure"]
        /\ Len(ended) <= Len(sub)
        /\ Len(sub) <= Len(ended) + 1
        /\ Len(sub) = Len(ended) + 1 <=> pc[r] \in {"exec", "readFile"}
        /\ \A i \in DOMAIN ended :
             /\ ended[i].strategy = sub[i]
             /\ ended[i].outcome = "success" =>
                  /\ i = Len(ended)
                  /\ i = Len(sub)
                  /\ log[r][Len(log[r])] \in {sub[i], "readFile", "unlink", "update"}

C14_Witness ==
  \E r \in Req :
    /\ attempts[r] = <<[strategy |-> "basic", outcome |-> "failure"],
                       [strategy |-> "userFolder", outcome |-> "failure"],
                       [strategy |-> "minimal", outcome |-> "success"]>>
    /\ Subprocesses(r) = <<"basic", "userFolder", "minimal">>
    /\ res[r].status = 200

\* The last operation request r started
LastOp(r) == log[r][Len(log[r])]

\* C15: an error raised while a strategy runs (its subprocess exits non-zero, times
\* out or cannot be spawned, its output has no success marker, the scratch file
\* cannot be read back, or the mkdir before the userFolder strategy fails) fails that
\* strategy only: the next strategy in order is entered, the import as a whole
\* fails only after minimal has failed, and executeN8NCLIEnhanced returns an outcome
\* object to the handler instead of throwing.
C15_StrategyErrorsContained ==
  \A r \in Req :
    /\ lastAttempt[r].outcome = "failure" =>
         /\ lastAttempt[r].error
              \in {"Command failed", "no success indicators found", "ENOENT"}
         /\ lastAttempt[r].strategy = "basic" => LastOp(r) = "mkdir"
         /\ lastAttempt[r].strategy = "userFolder" => LastOp(r) = "minimal"
         /\ lastAttempt[r].strategy = "minimal" =>
              /\ LastOp(r) = "unlink"
              /\ result[r].message = "All import strategies failed"
    /\ Failed(r, "basic") => Started(r, "mkdir")
    /\ Failed(r, "userFolder") => Started(r, "minimal")
    /\ Started(r, "mkdir") /\ pc[r] # "mkdir" =>
         Started(r, "userFolder") \/ Started(r, "minimal")
    /\ result[r] # NoResult /\ ~result[r].success /\ Started(r, "basic") =>
         /\ Started(r, "minimal")
         /\ attempts[r][Len(attempts[r])] = [strategy |-> "minimal", outcome |-> "failure"]
    /\ Started(r, "writeFile") /\ pc[r] \in {"update", "done"} =>
         /\ cliResult[r] # NoResult
         /\ cliResult[r] = result[r]
         /\ Started(r, "update")
    /\ Started(r, "writeFile") /\ res[r].error_type = "railway_service_error" =>
         answers[r].update = "failed"

\* One request went from a failed mkdir to the minimal strategy while another had
\* its basic subprocess rejected and is in strategy 2
C15_Witness ==
  \E r1, r2 \in Req :
    /\ Started(r1, "mkdir") /\ ~Started(r1, "userFolder") /\ Started(r1, "minimal")
    /\ lastAttempt[r2].strategy = "basic"
    /\ lastAttempt[r2].error = "Command failed"
    /\ pc[r2] = "mkdir"

\* C16: the status-update write carries the success flag, an injected timestamp
\* that is null exactly when the import failed, an error text that is null when the
\* import succeeded and is the failure message when it failed, and the credential
\* id only when the import succeeded.
C16_StatusWriteFields ==
  \A r \in Req :
    Started(r, "update")
      => /\ updateData[r].injected_to_n8n = cliResult[r].success
         /\ updateData[r].injected_at = Null <=> ~cliResult[r].success
         /\ cliResult[r].success => updateData[r].injection_error = Null
         /\ ~cliResult[r].success =>
              updateData[r].injection_error = cliResult[r].message
         /\ updateData[r].n8n_credential_id # Undefined => cliResult[r].success

\* The ways a query can end without a row
Misses == {"no row", "error", "throws"}

\* C17: the lookup gives the same 'not found' result, a 404 response, when the
\* credential-row query or the configuration-row query ends with no row, with an
\* error or by throwing; the configuration row is queried only after the
\* credential row was found, each query is issued at most once per request, and a
\* 404 response is followed by no scratch file, import subprocess or status write.
C17_LookupMissIs404 ==
  \A r \in Req :
    /\ answers[r].socialCred \in Misses \/ answers[r].userInfo \in Misses =>
         /\ res[r].status = 404
         /\ res[r].message = "User credentials or n8n configuration not found"
    /\ answers[r].socialCred \in Misses => ~Started(r, "select user")
    /\ Started(r, "select user") => answers[r].socialCred = "row"
    /\ Count(r, "select credential") <= 1
    /\ Count(r, "select user") <= 1
    /\ res[r].status = 404 =>
         /\ pc[r] = "done"
         /\ LastOp(r) \in {"select credential", "select user"}
         /\ credentialTemplate[r] = NoTemplate
         /\ tempFilePath[r] = NoPath
         /\ attempts[r] = << >>
         /\ updateData[r] = NoUpdate

C17_Witness ==
  \E r1, r2 \in Req :
    /\ answers[r1].socialCred = "throws" /\ res[r1].status = 404
    /\ answers[r2].socialCred = "row" /\ answers[r2].userInfo = "no row"
    /\ res[r2].status = 404

\* The providers the mapping has an entry for
MappedProviders == {"google", "spotify", "github"}

\* C18: a request whose provider has no entry in the mapping, once both store rows
\* are found, ends with a 500 response carrying 'Unsupported provider', and no
\* scratch file is created, no import subprocess is started and no status-update
\* write is attempted for it.
C18_UnmappedProviderIsFatal ==
  \A r \in Req :
    Posted(r) /\ answers[r].userInfo = "row" /\ body[r].provider \notin MappedProviders
      => /\ res[r].status = 500
         /\ res[r].message = "Unsupported provider"
         /\ tempFilePath[r] = NoPath
         /\ ~Started(r, "writeFile")
         /\ \A s \in Strategies : ~Started(r, s)
         /\ updateData[r] = NoUpdate

\* Requests r1 and r2 are two POSTs for the same (user, provider)
SamePair(r1, r2) ==
  /\ r1 # r2 /\ Posted(r1) /\ Posted(r2)
  /\ HasBothFields(r1)
  /\ body[r1].user_id = body[r2].user_id /\ body[r1].provider = body[r2].provider

\* Each of two requests for the same pair that got as far as the import has its own
\* scratch document and answers only after a status write of its own
NotDeduplicated ==
  \A r1, r2 \in Req :
    SamePair(r1, r2) /\ Started(r1, "writeFile") /\ Started(r2, "writeFile")
      => /\ credentialTemplate[r1].id # credentialTemplate[r2].id
         /\ \A r \in {r1, r2} :
              Responded(r) =>
                /\ Count(r, "writeFile") = 1
                /\ Count(r, "basic") <= 1
                /\ Count(r, "update") = 1
                /\ updateData[r].eq_provider = body[r].provider
                /\ updateData[r].injected_to_n8n = cliResult[r].success

\* The status write of request r is applied in this step
WriteApplied(r) ==
  pc[r] = "update" /\ pc'[r] = "done" /\ answers'[r].update = "ok"

\* Whatever the row held, after the step it holds the fields of the write applied
LastWriteWins ==
  \A r \in Req :
    WriteApplied(r)
      => LET p == body[r].provider
         IN  /\ record'[p].injected_to_n8n = updateData[r].injected_to_n8n
             /\ record'[p].injected_at = updateData[r].injected_at
             /\ record'[p].injection_error = updateData[r].injection_error
             /\ updateData[r].n8n_credential_id # Undefined =>
                  record'[p].n8n_credential_id = updateData[r].n8n_credential_id
             /\ \A q \in ProviderInputs \ {p} : record'[q] = record[q]

\* C19: two simultaneous requests for the same (user, provider) are neither
\* deduplicated nor serialized: each runs its own import and issues its own
\* status-update write, and the status record holds the fields of whichever write
\* was applied last (so it can read 'failed' although the other request's import
\* succeeded).
C19_LastWriteWins == [](NotDeduplicated) /\ [][LastWriteWins]_vars

\* Two requests for the same pair were inside the importer together; the one whose
\* import succeeded was answered 200, the other's failure was written last, and the
\* record reads 'not injected'
C19_Witness ==
  \E r1, r2 \in Req :
    /\ SamePair(r1, r2)
    /\ tempFilePath[r1] # tempFilePath[r2]
    /\ res[r1].status = 200
    /\ Len(attempts[r2]) = 3 /\ res[r2].status = 500
    /\ answers[r1].update = "ok" /\ answers[r2].update = "ok"
    /\ record[body[r1].provider].injected_to_n8n = FALSE
    /\ record[body[r1].provider].n8n_credential_id = res[r1].credential_id

\* C20: the credential id returned in a 200 response and written to the status
\* record is the id createCredentialTemplate generated for that same request,
\* under any interleaving of concurrent requests.
C20_OwnCredentialId ==
  \A r \in Req :
    /\ cliResult[r].success => cliResult[r].credentialId = credentialTemplate[r].id
    /\ Started(r, "update") /\ updateData[r].n8n_credential_id # Undefined =>
         updateData[r].n8n_credential_id = credentialTemplate[r].id
    /\ res[r].status = 200 => res[r].credential_id = credentialTemplate[r].id

\* C21: whenever executeN8NCLIEnhanced returns a failure outcome whose
\* troubleshooting payload lists strategies_tried = basic, userFolder, minimal, the
\* import subprocess was started once for each of the three strategies during that
\* request.
C21_StrategiesTriedRan ==
  \A r \in Req :
    /\ cliResult[r] # NoResult
    /\ ~cliResult[r].success
    /\ cliResult[r].troubleshooting.strategies_tried = <<"basic", "userFolder", "minimal">>
    => \A s \in Strategies : Count(r, s) = 1

\* The response of a request that has one is never replaced by another
NoSecondResponse ==
  \A r \in Req : Responded(r) => res'[r] = res[r] /\ pc'[r] = "done"

\* The handler of a request has returned exactly when a response was sent
ReturnedIffResponded ==
  \A r \in Req : pc[r] = "done" <=> Responded(r)

\* C22: provided every external call (CLI probe, store queries, file operations,
\* import subprocesses, status write) returns, fails or times out, every POST
\* /inject-credential eventually gets a response, and no path of the handler sends
\* two responses or returns without one.
C22_ExactlyOneResponse ==
  /\ \A r \in Req : Posted(r) ~> Responded(r)
  /\ [](ReturnedIffResponded)
  /\ [][NoSecondResponse]_vars

\* A request was answered after its importer went through all three strategies
\* and a failed deletion of the scratch file
C22_Witness ==
  \E r \in Req :
    /\ Posted(r) /\ Responded(r)
    /\ Len(attempts[r]) = 3
    /\ files[tempFilePath[r]] # NoFile
    /\ LastOp(r) = "update"

====
